---- MODULE Spec2Model ----
(***************************************************************************)
(* A model of the tabular Q-learning agent of reinforcement-learning-rust: *)
(* the numeric kernel (internal/math), the action-value table              *)
(* (internal/datastructures QMap) and BayesianAgent (bayesianagent.rs).    *)
(*                                                                         *)
(* Numbers.  The program computes in f64.  The model computes exactly in   *)
(* the numbers (p + q*eps)/d with p, q, d integers, d > 0 and              *)
(* eps = f64::EPSILON = 2^-52, written <<p, q, d>>.  eps is smaller than   *)
(* every difference of two distinct rationals the model can form (their    *)
(* denominators stay far below 2^26), so the order is lexicographic on     *)
(* (rational part, eps part), and products drop the eps^2 term.  Rounding  *)
(* is not modelled; values that differ by less than f64::EPSILON arise     *)
(* from rewards that differ by less than f64::EPSILON.                     *)
(***************************************************************************)
EXTENDS Integers, Sequences, FiniteSets, TLC

VARIABLES scenario, data, learned, calls_made, last

vars == <<scenario, data, learned, calls_made, last>>

(***************************************************************************)
(* Bounds of the model.                                                    *)
(***************************************************************************)
MaxLearns == 2

MaxTieIndex == 2

(***************************************************************************)
(* Numbers.                                                                *)
(***************************************************************************)
Abs(n) == IF n < 0 THEN -n ELSE n

RECURSIVE GCD(_, _)
GCD(a, b) == IF b = 0 THEN a ELSE GCD(b, a % b)

Norm(p, q, d) ==
    LET s == IF d < 0 THEN -1 ELSE 1
        g == GCD(GCD(Abs(p), Abs(q)), Abs(d))
    IN  <<(s * p) \div g, (s * q) \div g, (s * d) \div g>>

Num(n) == <<n, 0, 1>>

Rat(n, d) == Norm(n, 0, d)

Zero == Num(0)

\* f64::EPSILON
EPSILON == <<0, 1, 1>>

Add(x, y) == Norm(x[1] * y[3] + y[1] * x[3], x[2] * y[3] + y[2] * x[3], x[3] * y[3])

Neg(x) == <<-x[1], -x[2], x[3]>>

Sub(x, y) == Add(x, Neg(y))

Mul(x, y) == Norm(x[1] * y[1], x[1] * y[2] + x[2] * y[1], x[3] * y[3])

\* x / y for a divisor without eps part (the program divides by counts only)
Div(x, y) == Norm(x[1] * y[3], x[2] * y[3], x[3] * y[1])

Less(x, y) ==
    LET l == x[1] * y[3]
        r == y[1] * x[3]
    IN  \/ l < r
        \/ l = r /\ x[2] * y[3] < y[2] * x[3]

AbsVal(x) == IF Less(x, Zero) THEN Neg(x) ELSE x

(***************************************************************************)
(* internal/math                                                           *)
(***************************************************************************)
\* safe_divide without the guard's zero: the dividend comes back
safe_divide_keeps_dividend(dividend, divisor) ==
    IF divisor = Zero THEN dividend ELSE Div(dividend, divisor)

safe_divide(dividend, divisor) ==
    IF divisor = Zero THEN Zero ELSE Div(dividend, divisor)

bayesian_average(c, n, m, v) ==
    safe_divide(Add(Mul(c, m), Mul(n, v)), Add(c, n))

bellman(old_value, learning_rate, reward, discount_factor, optimal_future_value) ==
    Add(Mul(learning_rate,
            Sub(Add(Mul(discount_factor, optimal_future_value), reward), old_value)),
        old_value)


(***************************************************************************)
(* The caller's world: state and action objects (iface Stater, Actioner)   *)
(* and the agent's configuration, one per scenario.                        *)
(*   "learn"   the objects of tests::learn: states A and B, both with the  *)
(*             actions X, Y, Z; BayesianAgent::new(10, 1.0, 0.0)           *)
(*   "general" the states of tests::recommend_action under distinct ids:   *)
(*             E without actions, S with A, T with A and B;                *)
(*             BayesianAgent::new(2, 0.5, 0.5)                             *)
(*   "tie"     the states S and T with BayesianAgent::new(0, 1.0, 0.0):    *)
(*             a weighted value is the raw value, the raw value the reward *)
(***************************************************************************)
Scenarios == {"learn", "general", "tie"}

None == "None"

StateIds(sc) ==
    CASE sc = "learn" -> {"A", "B"}
      [] sc = "general" -> {"E", "S", "T"}
      [] sc = "tie" -> {"S", "T"}

ActionIds(sc) == IF sc = "learn" THEN {"X", "Y", "Z"} ELSE {"A", "B"}

\* Stater::possible_actions, as the ids of the actions in the order of the Vec
possible_actions(state) ==
    CASE state = "A" -> <<"X", "Y", "Z">>
      [] state = "B" -> <<"X", "Y", "Z">>
      [] state = "E" -> <<>>
      [] state = "S" -> <<"A">>
      [] state = "T" -> <<"A", "B">>

Range(seq) == {seq[i] : i \in DOMAIN seq}

priming_threshold(sc) ==
    CASE sc = "learn" -> 10
      [] sc = "general" -> 2
      [] sc = "tie" -> 0

learning_rate(sc) == IF sc = "general" THEN Rat(1, 2) ELSE Num(1)

discount_factor(sc) == IF sc = "general" THEN Rat(1, 2) ELSE Num(0)

\* the rewards a caller passes to learn; 1 - eps/2 is the f64 just below 1,
\* 1/2 + eps/2 the f64 just above 1/2
Rewards(sc) ==
    CASE sc = "learn" -> {Num(1), <<2, -1, 2>>}
      [] sc = "general" -> {Num(1), Num(-1)}
      [] sc = "tie" -> {Rat(1, 2), <<1, 1, 2>>}

\* the bytes of an id, for str::cmp
IdBytes ==
    [id \in {"A", "B", "E", "S", "T", "X", "Y", "Z"} |->
        CASE id = "A" -> <<65>>
          [] id = "B" -> <<66>>
          [] id = "E" -> <<69>>
          [] id = "S" -> <<83>>
          [] id = "T" -> <<84>>
          [] id = "X" -> <<88>>
          [] id = "Y" -> <<89>>
          [] id = "Z" -> <<90>>]

\* Stater::get_action: the action of that name, or an error if the state has none
get_action(state, action_name) ==
    IF action_name \in Range(possible_actions(state))
    THEN [kind |-> "Ok", value |-> action_name]
    ELSE [kind |-> "Err", msg |-> <<"get_action: not found", action_name, state>>]

(***************************************************************************)
(* actionstats.rs                                                          *)
(***************************************************************************)
\* ActionStats::default()
DefaultStats == [call_count |-> 0, q_raw |-> Zero, q_weighted |-> Zero]

(***************************************************************************)
(* internal/datastructures: QMap.  data maps a state id to a map from      *)
(* action id to stats; every operation returns the new data.               *)
(***************************************************************************)
EmptyMap == <<>>

Insert(map, key, value) ==
    [k \in DOMAIN map \cup {key} |-> IF k = key THEN value ELSE map[k]]

\* self.data.entry(state.id()).or_insert(HashMap::new())
get_actions_for_state(d, state) ==
    IF state \in DOMAIN d THEN d ELSE Insert(d, state, EmptyMap)

\* <<data after the call, the Option: <<>> for None, <<copy>> for Some(copy)>>
get_stats(d, state, action) ==
    LET d1 == get_actions_for_state(d, state)
    IN  IF action \in DOMAIN d1[state]
        THEN <<d1, <<d1[state][action]>>>>
        ELSE <<d1, <<>>>>

update_stats(d, state, action, stats) ==
    LET d1 == get_actions_for_state(d, state)
    IN  Insert(d1, state, Insert(d1[state], action, stats))

(***************************************************************************)
(* bayesianagent.rs: the private helpers                                   *)
(***************************************************************************)
\* The first loop of apply_action_weights over possible_actions[i..]:
\* <<data, raw_value_sum, existing_action_count>>
RECURSIVE VisitPossibleActions(_, _, _, _, _, _)
VisitPossibleActions(d, state, actions, i, raw_value_sum, existing_action_count) ==
    IF i > Len(actions)
    THEN <<d, raw_value_sum, existing_action_count>>
    ELSE LET got == get_stats(d, state, actions[i])
         IN  IF got[2] # <<>>
             THEN VisitPossibleActions(got[1], state, actions, i + 1,
                      Add(raw_value_sum, got[2][1].q_raw), existing_action_count + 1)
             ELSE VisitPossibleActions(
                      update_stats(got[1], state, actions[i], DefaultStats),
                      state, actions, i + 1, raw_value_sum, existing_action_count)

\* apply_action_weights that stores the weighted value as the raw value too
apply_action_weights_sets_raw(sc, d, state) ==
    LET visited == VisitPossibleActions(d, state, possible_actions(state), 1, Zero, 0)
        mean == safe_divide(visited[2], Num(visited[3]))
        d1 == get_actions_for_state(visited[1], state)
        weighted(a) == bayesian_average(Num(priming_threshold(sc)),
                                        Num(d1[state][a].call_count),
                                        mean, d1[state][a].q_raw)
        action_stats ==
            [a \in DOMAIN d1[state] |->
                [d1[state][a] EXCEPT !.q_weighted = weighted(a),
                                     !.q_raw = weighted(a)]]
    IN  Insert(d1, state, action_stats)

\* apply_action_weights that takes the mean over all possible actions
apply_action_weights_mean_of_all(sc, d, state) ==
    LET visited == VisitPossibleActions(d, state, possible_actions(state), 1, Zero, 0)
        mean == safe_divide(visited[2], Num(Len(possible_actions(state))))
        d1 == get_actions_for_state(visited[1], state)
        action_stats ==
            [a \in DOMAIN d1[state] |->
                [d1[state][a] EXCEPT !.q_weighted =
                    bayesian_average(Num(priming_threshold(sc)),
                                     Num(d1[state][a].call_count),
                                     mean, d1[state][a].q_raw)]]
    IN  Insert(d1, state, action_stats)

apply_action_weights(sc, d, state) ==
    LET visited == VisitPossibleActions(d, state, possible_actions(state), 1, Zero, 0)
        mean == safe_divide(visited[2], Num(visited[3]))
        d1 == get_actions_for_state(visited[1], state)
        action_stats ==
            [a \in DOMAIN d1[state] |->
                [d1[state][a] EXCEPT !.q_weighted =
                    bayesian_average(Num(priming_threshold(sc)),
                                     Num(d1[state][a].call_count),
                                     mean, d1[state][a].q_raw)]]
    IN  Insert(d1, state, action_stats)

\* the loop of get_best_value over the records not yet visited
RECURSIVE BestOver(_, _, _)
BestOver(bucket, todo, best_q_value) ==
    IF todo = {}
    THEN best_q_value
    ELSE LET a == CHOOSE x \in todo : TRUE
             q == bucket[a].q_weighted
         IN  BestOver(bucket, todo \ {a},
                      IF Less(best_q_value, q) THEN q ELSE best_q_value)

\* get_best_value that takes the state's bucket out of the map to read it
get_best_value_takes_bucket(d, state) ==
    LET d1 == get_actions_for_state(d, state)
    IN  <<[s \in DOMAIN d1 \ {state} |-> d1[s]],
          BestOver(d1[state], DOMAIN d1[state], Zero)>>

\* <<data after the call, the best value>>
get_best_value(d, state) ==
    LET d1 == get_actions_for_state(d, state)
    IN  <<d1, BestOver(d1[state], DOMAIN d1[state], Zero)>>

(***************************************************************************)
(* bayesianagent.rs: the Agenter implementation                            *)
(***************************************************************************)
\* learn that feeds bellman the raw value of the record, not the weighted one
learn_present_old_raw(sc, d, previous_state, action_taken, current_state, reward) ==
    LET got == get_stats(d, previous_state, action_taken)
        stats == IF got[2] # <<>> THEN got[2][1] ELSE DefaultStats
        d1 == apply_action_weights(sc, got[1], current_state)
        best == get_best_value(d1, current_state)
        new_value == bellman(stats.q_raw, learning_rate(sc), reward,
                             discount_factor(sc), best[2])
        updated == [stats EXCEPT !.call_count = stats.call_count + 1,
                                 !.q_raw = new_value]
        d2 == update_stats(best[1], previous_state, action_taken, updated)
    IN  apply_action_weights(sc, d2, previous_state)

\* learn that starts from default stats also when the record exists
learn_present_from_default(sc, d, previous_state, action_taken, current_state, reward) ==
    LET got == get_stats(d, previous_state, action_taken)
        stats == DefaultStats
        d1 == apply_action_weights(sc, got[1], current_state)
        best == get_best_value(d1, current_state)
        new_value == bellman(stats.q_weighted, learning_rate(sc), reward,
                             discount_factor(sc), best[2])
        updated == [stats EXCEPT !.call_count = stats.call_count + 1,
                                 !.q_raw = new_value]
        d2 == update_stats(best[1], previous_state, action_taken, updated)
    IN  apply_action_weights(sc, d2, previous_state)

\* learn with previous_state present; the data after the call
learn_present(sc, d, previous_state, action_taken, current_state, reward) ==
    LET got == get_stats(d, previous_state, action_taken)
        stats == IF got[2] # <<>> THEN got[2][1] ELSE DefaultStats
        d1 == apply_action_weights(sc, got[1], current_state)
        best == get_best_value(d1, current_state)
        new_value == bellman(stats.q_weighted, learning_rate(sc), reward,
                             discount_factor(sc), best[2])
        updated == [stats EXCEPT !.call_count = stats.call_count + 1,
                                 !.q_raw = new_value]
        d2 == update_stats(best[1], previous_state, action_taken, updated)
    IN  apply_action_weights(sc, d2, previous_state)

\* learn that refreshes current_state before it looks at previous_state
learn_refresh_first(sc, d, previous_state, action_taken, current_state, reward) ==
    IF previous_state = None
    THEN apply_action_weights(sc, d, current_state)
    ELSE learn_present(sc, d, previous_state, action_taken, current_state, reward)

learn(sc, d, previous_state, action_taken, current_state, reward) ==
    IF previous_state = None
    THEN d
    ELSE learn_present(sc, d, previous_state, action_taken, current_state, reward)

Ok == [kind |-> "Ok", value |-> "()"]

IncompatibleAction(action, state) ==
    [kind |-> "Err",
     msg |-> <<"action ", action, " is not compatible with state ", state>>]

NoPossibleActions(state) ==
    [kind |-> "Err", msg |-> <<"state '", state, "' reports no possible actions">>]

\* The index best_actions[tie_breaker] is out of bounds
Panic == [kind |-> "Panic"]

\* transition that applies the action before it asks whether it is compatible
transition_apply_first(current_state, action, is_compatible, apply_result) ==
    IF ~is_compatible
    THEN <<IncompatibleAction(action, current_state), <<action>>>>
    ELSE <<apply_result, <<action>>>>

\* transition that reports success whatever apply returns
transition_drop_result(current_state, action, is_compatible, apply_result) ==
    IF ~is_compatible
    THEN <<IncompatibleAction(action, current_state), <<>>>>
    ELSE <<Ok, <<action>>>>

\* <<the result, the actions state.apply was invoked with, in order>>;
\* is_compatible and apply_result are what the caller's state answers
transition(current_state, action, is_compatible, apply_result) ==
    IF ~is_compatible
    THEN <<IncompatibleAction(action, current_state), <<>>>>
    ELSE <<apply_result, <<action>>>>

\* the f64 the scan starts from, -1.0 * f64::MAX, below every value of the model
NegMax == "-f64::MAX"

\* The loop of recommend_action over the records order[i..], in the order the
\* HashMap iterates them: <<best_value, best_actions>>
RECURSIVE ScanActions(_, _, _, _, _)
ScanActions(bucket, order, i, best_value, best_actions) ==
    IF i > Len(order)
    THEN <<best_value, best_actions>>
    ELSE LET av == [a |-> order[i], v |-> bucket[order[i]].q_weighted]
         IN  IF best_value = NegMax \/ Less(best_value, av.v)
             THEN ScanActions(bucket, order, i + 1, av.v, <<av>>)
             ELSE IF Less(AbsVal(Sub(av.v, best_value)), EPSILON)
                  THEN ScanActions(bucket, order, i + 1, best_value,
                                   Append(best_actions, av))
                  ELSE ScanActions(bucket, order, i + 1, best_value, best_actions)

\* str::cmp on the bytes of two ids: -1 Less, 0 Equal, 1 Greater
RECURSIVE CmpBytes(_, _, _)
CmpBytes(x, y, i) ==
    IF i > Len(x) /\ i > Len(y) THEN 0
    ELSE IF i > Len(x) THEN -1
    ELSE IF i > Len(y) THEN 1
    ELSE IF x[i] < y[i] THEN -1
    ELSE IF x[i] > y[i] THEN 1
    ELSE CmpBytes(x, y, i + 1)

cmp(x, y) == CmpBytes(IdBytes[x], IdBytes[y], 1)

\* insert av into a sorted sequence after the elements that are not greater
RECURSIVE InsertSorted(_, _)
InsertSorted(sorted, av) ==
    IF sorted = <<>> THEN <<av>>
    ELSE IF cmp(av.a, Head(sorted).a) < 0 THEN <<av>> \o sorted
    ELSE <<Head(sorted)>> \o InsertSorted(Tail(sorted), av)

\* best_actions.sort_by(|x, y| x.a.cmp(y.a)), a stable sort
RECURSIVE sort_by(_)
sort_by(best_actions) ==
    IF best_actions = <<>> THEN <<>>
    ELSE InsertSorted(sort_by(SubSeq(best_actions, 1, Len(best_actions) - 1)),
                      best_actions[Len(best_actions)])

\* the orders a HashMap with these keys can iterate them in
Orders(keys) ==
    {o \in [1..Cardinality(keys) -> keys] : \A i, j \in DOMAIN o : o[i] = o[j] => i = j}

\* recommend_action that wraps the tie breaker's index into the candidates
recommend_action_wrap_index(sc, d, state, order, tie_break) ==
    LET d1 == apply_action_weights(sc, d, state)
        d2 == get_actions_for_state(d1, state)
        scanned == ScanActions(d2[state], order, 1, NegMax, <<>>)
        best_actions == sort_by(scanned[2])
    IN  IF scanned[2] = <<>>
        THEN <<d2, NoPossibleActions(state)>>
        ELSE <<d2, get_action(state,
                       best_actions[(tie_break % Len(best_actions)) + 1].a)>>

\* recommend_action that asks the state for its actions first and fails
\* before it touches the table
recommend_action_check_first(sc, d, state, order, tie_break) ==
    LET d1 == apply_action_weights(sc, d, state)
        d2 == get_actions_for_state(d1, state)
        scanned == ScanActions(d2[state], order, 1, NegMax, <<>>)
        best_actions == sort_by(scanned[2])
    IN  IF possible_actions(state) = <<>>
        THEN <<d, NoPossibleActions(state)>>
        ELSE IF tie_break >= Len(best_actions)
             THEN <<d2, Panic>>
             ELSE <<d2, get_action(state, best_actions[tie_break + 1].a)>>

\* <<data after the call, the result>>; order is the iteration order of the
\* state's records, tie_break the index the tie breaker returns
recommend_action(sc, d, state, order, tie_break) ==
    LET d1 == apply_action_weights(sc, d, state)
        d2 == get_actions_for_state(d1, state)
        scanned == ScanActions(d2[state], order, 1, NegMax, <<>>)
        best_actions == sort_by(scanned[2])
    IN  IF scanned[2] = <<>>
        THEN <<d2, NoPossibleActions(state)>>
        ELSE IF tie_break >= Len(best_actions)
             THEN <<d2, Panic>>
             ELSE <<d2, get_action(state, best_actions[tie_break + 1].a)>>

get_agent_context(sc, d) ==
    [learning_rate |-> learning_rate(sc),
     discount_factor |-> discount_factor(sc),
     priming_threshold |-> priming_threshold(sc),
     q_values |-> d]

(***************************************************************************)
(* The state machine: one agent, its calls made one at a time.             *)
(*   scenario    the caller's world and the agent's configuration          *)
(*   data        QMap.data                                                 *)
(*   learned     per (state, action): the learn calls with that previous   *)
(*               state and action taken that have completed                *)
(*   calls_made  the learn calls made                                      *)
(*   last        the call that has just returned, until the caller takes   *)
(*               its result: its arguments, the data before it, what the   *)
(*               caller's state answered, and its result; Idle otherwise   *)
(***************************************************************************)
NoArg == "-"

Call(op, state, action, cur, reward, tie, before, applied, result) ==
    [op |-> op, state |-> state, action |-> action, cur |-> cur,
     reward |-> reward, tie |-> tie, before |-> before,
     applied |-> applied, result |-> result]

\* no call has returned since the caller last took a result
Idle == Call("idle", NoArg, NoArg, NoArg, NoArg, NoArg, EmptyMap, <<>>, Ok)

\* BayesianAgent::new
Init ==
    /\ scenario \in Scenarios
    /\ data = EmptyMap
    /\ learned = [p \in StateIds(scenario) \X ActionIds(scenario) |-> 0]
    /\ calls_made = 0
    /\ last = Idle

Learn ==
    \E previous_state \in StateIds(scenario) \cup {None},
       action_taken \in ActionIds(scenario),
       current_state \in StateIds(scenario),
       reward \in Rewards(scenario) :
        /\ last = Idle
        /\ calls_made < MaxLearns
        /\ data' = learn(scenario, data, previous_state, action_taken,
                         current_state, reward)
        /\ learned' = IF previous_state = None
                      THEN learned
                      ELSE [learned EXCEPT ![<<previous_state, action_taken>>] = @ + 1]
        /\ calls_made' = calls_made + 1
        /\ last' = Call("learn", previous_state, action_taken, current_state,
                        reward, NoArg, data, <<>>, Ok)
        /\ UNCHANGED scenario

Transition ==
    \E current_state \in StateIds(scenario),
       action \in ActionIds(scenario),
       is_compatible \in BOOLEAN,
       apply_result \in {Ok, [kind |-> "Err", msg |-> <<"apply failed">>]} :
        LET done == transition(current_state, action, is_compatible, apply_result)
        IN  /\ last = Idle
            /\ last' = Call("transition", current_state, action, NoArg, NoArg,
                            NoArg, data, done[2],
                            [answer |-> done[1], is_compatible |-> is_compatible,
                             apply_result |-> apply_result])
            /\ UNCHANGED <<scenario, data, learned, calls_made>>

RecommendAction ==
    \E state \in StateIds(scenario), tie_break \in 0..MaxTieIndex :
        /\ last = Idle
        /\ \E order \in Orders(DOMAIN apply_action_weights(scenario, data, state)[state]) :
            LET done == recommend_action(scenario, data, state, order, tie_break)
            IN  /\ data' = done[1]
                /\ last' = Call("recommend_action", state, NoArg, NoArg, NoArg,
                                tie_break, data, <<>>, done[2])
                /\ UNCHANGED <<scenario, learned, calls_made>>

GetAgentContext ==
    /\ last = Idle
    /\ last' = Call("get_agent_context", NoArg, NoArg, NoArg, NoArg, NoArg,
                    data, <<>>, get_agent_context(scenario, data))
    /\ UNCHANGED <<scenario, data, learned, calls_made>>

\* the caller takes the result of the call that returned and goes on
TakeResult ==
    /\ last # Idle
    /\ last' = Idle
    /\ UNCHANGED <<scenario, data, learned, calls_made>>

Next == Learn \/ Transition \/ RecommendAction \/ GetAgentContext \/ TakeResult

Spec == Init /\ [][Next]_vars

(***************************************************************************)
(* The table on its own: the operations of QMap called directly, as the    *)
(* agent and the tests of the crate can (QMap is pub(crate)).              *)
(***************************************************************************)
\* the records update_stats is called with
StatsInputs ==
    {DefaultStats, [call_count |-> 1, q_raw |-> Num(1), q_weighted |-> Rat(1, 2)]}

QGetStats ==
    \E state \in StateIds(scenario), action \in ActionIds(scenario) :
        LET got == get_stats(data, state, action)
        IN  /\ data' = got[1]
            /\ last' = Call("get_stats", state, action, NoArg, NoArg, NoArg,
                            data, <<>>, got[2])
            /\ UNCHANGED <<scenario, learned, calls_made>>

QUpdateStats ==
    \E state \in StateIds(scenario), action \in ActionIds(scenario),
       stats \in StatsInputs :
        /\ data' = update_stats(data, state, action, stats)
        /\ last' = Call("update_stats", state, action, NoArg, NoArg, NoArg,
                        data, <<>>, stats)
        /\ UNCHANGED <<scenario, learned, calls_made>>

QGetActionsForState ==
    \E state \in StateIds(scenario) :
        /\ data' = get_actions_for_state(data, state)
        /\ last' = Call("get_actions_for_state", state, NoArg, NoArg, NoArg, NoArg,
                        data, <<>>, get_actions_for_state(data, state)[state])
        /\ UNCHANGED <<scenario, learned, calls_made>>

NextQMap == QGetStats \/ QUpdateStats \/ QGetActionsForState

SpecQMap == Init /\ [][NextQMap]_vars

(***************************************************************************)
(* The numeric kernel on its own: bayesian_average and safe_divide called  *)
(* with arguments from small sets.                                         *)
(***************************************************************************)
\* c, the priming threshold as f64 (an i64, so it can be negative)
PrimingInputs == {Num(-1), Num(0), Num(2), Num(10)}

\* n, a number of calls as f64
CallsInputs == {Num(0), Num(1), Num(2)}

ValueInputs == {Zero, Num(1), Num(-1), Num(10), Rat(2, 3), <<1, 1, 2>>}

DivisorInputs == {Zero, Num(2), Num(3), Num(-1)}

KernelCall(op, args, result) == [op |-> op, args |-> args, result |-> result]

MBayesianAverage ==
    \E c \in PrimingInputs, n \in CallsInputs, m \in ValueInputs, v \in ValueInputs :
        /\ last' = KernelCall("bayesian_average", <<c, n, m, v>>,
                              bayesian_average(c, n, m, v))
        /\ UNCHANGED <<scenario, data, learned, calls_made>>

MSafeDivide ==
    \E dividend \in ValueInputs, divisor \in DivisorInputs :
        /\ last' = KernelCall("safe_divide", <<dividend, divisor>>,
                              safe_divide(dividend, divisor))
        /\ UNCHANGED <<scenario, data, learned, calls_made>>

NextMath == MBayesianAverage \/ MSafeDivide

SpecMath == Init /\ [][NextMath]_vars

(***************************************************************************)
(* Properties                                                              *)
(***************************************************************************)
Returned(op) == last.op = op

\* the records of a state whose weighted value no record of the state exceeds
MaxIds(bucket) ==
    {a \in DOMAIN bucket :
        \A b \in DOMAIN bucket : ~Less(bucket[a].q_weighted, bucket[b].q_weighted)}

\* the id at position n (from 0) of the ids in ascending order
IdAt(ids, n) ==
    CHOOSE a \in ids : Cardinality({b \in ids : cmp(b, a) < 0}) = n

\* C1: recommend_action on a state with at least one action returns the
\* action whose id is at position tie_breaker(k) of the k ids, in ascending
\* order, whose weighted value is the maximum of the state after the refresh
\* (k >= 1, tie_breaker(k) in [0, k)).
C1_RecommendReturnsTieBrokenMaximum ==
    (/\ Returned("recommend_action")
     /\ possible_actions(last.state) # <<>>
     /\ last.tie < Cardinality(MaxIds(data[last.state])))
    => last.result =
          [kind |-> "Ok", value |-> IdAt(MaxIds(data[last.state]), last.tie)]

\* C2: learn with previous_state None leaves the snapshot that
\* get_agent_context returns as it was before the call.
C2_BootstrapLearnIsNoOp ==
    (Returned("learn") /\ last.state = None)
    => /\ DOMAIN data = DOMAIN last.before
       /\ \A s \in DOMAIN data :
            /\ DOMAIN data[s] = DOMAIN last.before[s]
            /\ \A a \in DOMAIN data[s] : data[s][a] = last.before[s][a]

\* C2 witness: a bootstrap learn has returned on a table that has records
C2_Witness ==
    /\ Returned("learn")
    /\ last.state = None
    /\ \E s \in DOMAIN data : DOMAIN data[s] # {}

\* C3: transition with an action the state says is not compatible returns
\* the IncompatibleAction error with the action id and the state id, and
\* state.apply is not invoked.
C3_IncompatibleActionNotApplied ==
    (Returned("transition") /\ ~last.result.is_compatible)
    => /\ last.result.answer =
            [kind |-> "Err",
             msg |-> <<"action ", last.action,
                       " is not compatible with state ", last.state>>]
       /\ last.applied = <<>>

\* C3 witness: a transition with an incompatible action has returned
C3_Witness ==
    /\ Returned("transition")
    /\ ~last.result.is_compatible
    /\ last.result.answer.kind = "Err"

\* C4: transition with a compatible action invokes state.apply exactly once,
\* with that action, and returns what apply returned, success or error.
C4_CompatibleActionAppliedOnce ==
    (Returned("transition") /\ last.result.is_compatible)
    => /\ last.applied = <<last.action>>
       /\ last.result.answer = last.result.apply_result

\* C4 witness: a transition whose apply failed has returned the failure
C4_Witness ==
    /\ Returned("transition")
    /\ last.result.is_compatible
    /\ last.result.apply_result.kind = "Err"
    /\ last.applied = <<last.action>>

\* C5: recommend_action on a state without possible actions fails with the
\* NoPossibleActions error that carries the state's id, whatever the table.
C5_NoPossibleActionsError ==
    (Returned("recommend_action") /\ possible_actions(last.state) = <<>>)
    => last.result =
          [kind |-> "Err",
           msg |-> <<"state '", last.state, "' reports no possible actions">>]

\* C6 as stated: a recommend_action call that fails with NoPossibleActions
\* leaves the table (its state ids, their action ids, every record) as it was.
C6_FailedRecommendLeavesTable ==
    (Returned("recommend_action") /\ last.result = NoPossibleActions(last.state))
    => data = last.before

\* C6 amended: a recommend_action call that fails with NoPossibleActions
\* leaves every bucket that was in the table as it was; the only change it
\* can make is to register the state with an empty bucket.
C6_FailedRecommendOnlyRegisters ==
    (Returned("recommend_action") /\ last.result = NoPossibleActions(last.state))
    => /\ DOMAIN data = DOMAIN last.before \cup {last.state}
       /\ \A s \in DOMAIN last.before : data[s] = last.before[s]
       /\ DOMAIN data[last.state] = {}

\* C6 witness: the failing call registered a state the table, which has
\* records of other states, had not seen
C6_Witness ==
    /\ Returned("recommend_action")
    /\ last.result = NoPossibleActions(last.state)
    /\ last.state \notin DOMAIN last.before
    /\ \E s \in DOMAIN last.before : DOMAIN last.before[s] # {}

RECURSIVE SumRaw(_, _)
SumRaw(bucket, ids) ==
    IF ids = {} THEN Zero
    ELSE LET a == CHOOSE x \in ids : TRUE
         IN  Add(bucket[a].q_raw, SumRaw(bucket, ids \ {a}))

\* the possible actions of learn's previous_state that had a record when the
\* final refresh of the call began: those with a record before the call, the
\* action taken, and all of them when current_state is the same state
HadRecord ==
    {x \in Range(possible_actions(last.state)) :
        \/ x = last.action
        \/ last.cur = last.state
        \/ last.state \in DOMAIN last.before /\ x \in DOMAIN last.before[last.state]}

Stats(calls, raw, weighted) ==
    [call_count |-> calls, q_raw |-> raw, q_weighted |-> weighted]

\* C7: after learn with previous_state present, every possible action of
\* previous_state has a record, and the weighted value of every record is
\* bayesian_average(priming_threshold, calls, mean, raw) with mean the
\* safe_divide of the sum of the raw values by the count, over the possible
\* actions that had a record when the final refresh began.  With
\* new(10, 1.0, 0.0), after learn(A, X, B, 1) and learn(A, Y, B, 1): (A, X)
\* and (A, Y) are calls 1, raw 1, weighted 23/33, (A, Z) is 0, 0, 2/3.
C7_LearnWeightsFromVisitedMean ==
    /\ (Returned("learn") /\ last.state # None)
       => LET bucket == data[last.state]
              mean == safe_divide(SumRaw(bucket, HadRecord),
                                  Num(Cardinality(HadRecord)))
          IN  /\ Range(possible_actions(last.state)) \subseteq DOMAIN bucket
              /\ \A a \in DOMAIN bucket :
                    bucket[a].q_weighted =
                        bayesian_average(Num(priming_threshold(scenario)),
                                         Num(bucket[a].call_count),
                                         mean, bucket[a].q_raw)
    /\ (/\ scenario = "learn"
        /\ Returned("learn")
        /\ calls_made = 2
        /\ <<last.state, last.action, last.cur, last.reward>> = <<"A", "Y", "B", Num(1)>>
        /\ learned[<<"A", "X">>] = 1
        /\ "A" \in DOMAIN last.before
        /\ "X" \in DOMAIN last.before["A"]
        /\ last.before["A"]["X"].q_raw = Num(1))
       => /\ data["A"]["X"] = Stats(1, Num(1), Rat(23, 33))
          /\ data["A"]["Y"] = Stats(1, Num(1), Rat(23, 33))
          /\ data["A"]["Z"] = Stats(0, Zero, Rat(2, 3))

\* C7 witness: the second learn of tests::learn has returned, after a first
\* one whose final refresh found a record for X only
C7_Witness ==
    /\ scenario = "learn"
    /\ Returned("learn")
    /\ calls_made = 2
    /\ <<last.state, last.action, last.cur, last.reward>> = <<"A", "Y", "B", Num(1)>>
    /\ "A" \in DOMAIN last.before
    /\ DOMAIN last.before["A"] = {"X", "Y", "Z"}
    /\ last.before["A"]["X"] = Stats(1, Num(1), Num(1))
    /\ last.before["A"]["Z"] = Stats(0, Zero, Num(1))
    /\ data["A"]["Z"].q_weighted = Rat(2, 3)

\* C8: the calls of every record is non-negative and is the number of learn
\* calls with that previous state and that action taken that have completed;
\* no other call and no refresh changes it.
C8_CallsCountLearns ==
    \A s \in StateIds(scenario), a \in ActionIds(scenario) :
        IF s \in DOMAIN data /\ a \in DOMAIN data[s]
        THEN data[s][a].call_count >= 0 /\ data[s][a].call_count = learned[<<s, a>>]
        ELSE learned[<<s, a>>] = 0

\* C8 witness: a record learned twice has been refreshed by recommend_action
C8_Witness ==
    /\ Returned("recommend_action")
    /\ last.state \in DOMAIN last.before
    /\ \E a \in DOMAIN data[last.state] : data[last.state][a].call_count = 2

\* C9: a second refresh of a state with no learn in between (here the one
\* recommend_action runs on a state whose bucket the last refresh of that
\* state produced) leaves every weighted value of the state as it was.
C9_RefreshIsIdempotent ==
    (Returned("recommend_action") /\ last.state \in DOMAIN last.before)
    => \A a \in DOMAIN last.before[last.state] :
            data[last.state][a].q_weighted = last.before[last.state][a].q_weighted

\* C10: between calls every record has weighted value
\* bayesian_average(priming_threshold, calls, M, raw), M the mean of the raw
\* values of all records of its state.
C10_WeightedFromPopulationMean ==
    \A s \in DOMAIN data : \A a \in DOMAIN data[s] :
        data[s][a].q_weighted =
            bayesian_average(Num(priming_threshold(scenario)),
                             Num(data[s][a].call_count),
                             safe_divide(SumRaw(data[s], DOMAIN data[s]),
                                         Num(Cardinality(DOMAIN data[s]))),
                             data[s][a].q_raw)

\* C11: with the tie breaker fixed, recommend_action returns the same action
\* for the same table and state whatever order the map iterates the state's
\* records in, also when weighted values differ by less than f64::EPSILON.
C11_RecommendIndependentOfOrder ==
    Returned("recommend_action")
    => \A order \in Orders(DOMAIN data[last.state]) :
          recommend_action(scenario, last.before, last.state, order, last.tie)[2]
              = last.result

\* no learn has named the state as its previous state
NoHistory(state) ==
    \A a \in ActionIds(scenario) : learned[<<state, a>>] = 0

\* C12 as stated: for a state with exactly one possible action and no
\* history, recommend_action returns that action whatever index the tie
\* breaker returns.
C12_SingleActionWhateverIndex ==
    (/\ Returned("recommend_action")
     /\ Len(possible_actions(last.state)) = 1
     /\ NoHistory(last.state))
    => last.result = [kind |-> "Ok", value |-> possible_actions(last.state)[1]]

\* C12 amended: for a state with exactly one possible action and no history,
\* recommend_action returns that action when the tie breaker returns 0, the
\* only index below the number of candidates, and panics on the index out of
\* bounds when it returns anything else.
C12_SingleActionIndexInRange ==
    (/\ Returned("recommend_action")
     /\ Len(possible_actions(last.state)) = 1
     /\ NoHistory(last.state))
    => last.result =
          IF last.tie = 0
          THEN [kind |-> "Ok", value |-> possible_actions(last.state)[1]]
          ELSE Panic

\* C12 witness: the single action was recommended on a state the table had
\* not seen
C12_Witness ==
    /\ Returned("recommend_action")
    /\ Len(possible_actions(last.state)) = 1
    /\ NoHistory(last.state)
    /\ last.state \notin DOMAIN last.before
    /\ last.tie = 0
    /\ last.result.kind = "Ok"

\* the (state, action) pairs that have a record in a table
Pairs(d) == {<<s, a>> \in StateIds(scenario) \X ActionIds(scenario) :
                s \in DOMAIN d /\ a \in DOMAIN d[s]}

\* C13: the table only grows: whatever call returned, every state id that was
\* in the table is in it and every action id that was under a state is under
\* it; a record that is new starts from the zero defaults: calls 0 and raw 0,
\* or, for the record learn writes, calls 1 (one update applied to calls 0).
C13_TableOnlyGrows ==
    (last # Idle)
    => /\ DOMAIN last.before \subseteq DOMAIN data
       /\ Pairs(last.before) \subseteq Pairs(data)
       /\ \A p \in Pairs(data) \ Pairs(last.before) :
            IF Returned("learn") /\ p = <<last.state, last.action>>
            THEN data[p[1]][p[2]].call_count = 1
            ELSE /\ data[p[1]][p[2]].call_count = 0
                 /\ data[p[1]][p[2]].q_raw = Zero

\* C13 witness: a learn has returned that kept the records the table had and
\* added the record it wrote and default records of other actions
C13_Witness ==
    /\ Returned("learn")
    /\ Pairs(last.before) # {}
    /\ <<last.state, last.action>> \in Pairs(data) \ Pairs(last.before)
    /\ \E p \in Pairs(data) \ Pairs(last.before) : p # <<last.state, last.action>>

\* C14: get_stats has no side effect: it returns a copy of the stored record,
\* or nothing if there is none, and the table, its set of state ids included,
\* is after the call what it was before, also for a state never seen.
C14_GetStatsLeavesTable ==
    Returned("get_stats")
    => /\ data = last.before
       /\ last.result =
            IF last.state \in DOMAIN last.before
               /\ last.action \in DOMAIN last.before[last.state]
            THEN <<last.before[last.state][last.action]>>
            ELSE <<>>

OldWeighted ==
    IF last.state \in DOMAIN last.before
       /\ last.action \in DOMAIN last.before[last.state]
    THEN last.before[last.state][last.action].q_weighted
    ELSE Zero

\* the records of learn's current_state after its refresh
RefreshedCurrent ==
    apply_action_weights(scenario, last.before, last.cur)[last.cur]

\* the largest of 0 and the weighted values of those records
BestFuture ==
    LET weights == {RefreshedCurrent[x].q_weighted : x \in DOMAIN RefreshedCurrent}
                   \cup {Zero}
    IN  CHOOSE w \in weights : \A u \in weights : ~Less(w, u)

\* C16: learn with previous_state present writes, for (previous_state,
\* action_taken), the raw value old + learning_rate * (reward +
\* discount_factor * best_future - old): old the weighted value stored for
\* the pair when learn was called (0 without a record), best_future the
\* largest of 0 and the weighted values of current_state's records after its
\* refresh, so never negative.
C16_RawValueIsBellman ==
    (Returned("learn") /\ last.state # None)
    => /\ data[last.state][last.action].q_raw =
            Add(OldWeighted,
                Mul(learning_rate(scenario),
                    Sub(Add(last.reward,
                            Mul(discount_factor(scenario), BestFuture)),
                        OldWeighted)))
       /\ ~Less(BestFuture, Zero)

\* C16 witness: a learn has returned whose record had a weighted value other
\* than 0 and whose current_state has records, all of negative weighted
\* value, so that best_future is the floor 0
C16_Witness ==
    /\ Returned("learn")
    /\ last.state # None
    /\ OldWeighted # Zero
    /\ discount_factor(scenario) # Zero
    /\ DOMAIN RefreshedCurrent # {}
    /\ \A x \in DOMAIN RefreshedCurrent : Less(RefreshedCurrent[x].q_weighted, Zero)
    /\ BestFuture = Zero

\* C17: the action id that recommend_action selects and resolves through
\* state.get_action is the id of one of state.possible_actions(), never an id
\* that is in the state's bucket only because a learn named it.
C17_SelectsOnlyPossibleActions ==
    Returned("recommend_action")
    => \A a \in ActionIds(scenario) :
          last.result = get_action(last.state, a)
          => a \in Range(possible_actions(last.state))

\* the raw value and calls of (s, a) in table d; a pair without a record
\* counts as the default record
RawAndCalls(d, s, a) ==
    IF s \in DOMAIN d /\ a \in DOMAIN d[s]
    THEN <<d[s][a].q_raw, d[s][a].call_count>>
    ELSE <<DefaultStats.q_raw, DefaultStats.call_count>>

\* state s has in d what it has in last.before: no bucket, or the same bucket
SameBucket(d, s) ==
    /\ s \in DOMAIN d <=> s \in DOMAIN last.before
    /\ s \in DOMAIN d => d[s] = last.before[s]

\* C18: learn with previous_state present changes the raw value and calls of
\* the record (previous_state, action_taken) only, and leaves the buckets of
\* all states other than previous_state and current_state as they were,
\* weighted values included; recommend_action(state) changes nothing outside
\* the state's bucket and no raw value or calls anywhere.
C18_LearnAndRecommendFrame ==
    /\ (Returned("learn") /\ last.state # None)
       => /\ \A s \in StateIds(scenario), a \in ActionIds(scenario) :
                <<s, a>> # <<last.state, last.action>>
                => RawAndCalls(data, s, a) = RawAndCalls(last.before, s, a)
          /\ \A s \in StateIds(scenario) \ {last.state, last.cur} :
                SameBucket(data, s)
    /\ Returned("recommend_action")
       => /\ \A s \in StateIds(scenario), a \in ActionIds(scenario) :
                RawAndCalls(data, s, a) = RawAndCalls(last.before, s, a)
          /\ \A s \in StateIds(scenario) \ {last.state} : SameBucket(data, s)

\* C18 witness: a learn has returned, with previous_state other than
\* current_state, while a third state had a learned record, and another
\* record of previous_state holds a weighted value other than its raw value
C18_Witness ==
    /\ Returned("learn")
    /\ last.state # None
    /\ last.state # last.cur
    /\ \E s \in DOMAIN last.before \ {last.state, last.cur} :
          \E a \in DOMAIN last.before[s] : last.before[s][a].call_count > 0
    /\ \E b \in DOMAIN data[last.state] \ {last.action} :
          data[last.state][b].q_weighted # data[last.state][b].q_raw

====
